---- MODULE Spec2Model ----
(***************************************************************************)
(* Model of functions/data_prepare.py: the manifest preparation pipeline   *)
(*   load_in4 -> transform_data -> split_sets -> create_json (x3)          *)
(* driven by prepare_data.                                                 *)
(*                                                                         *)
(* Strings are sequences of one-character strings, so that strip, split,   *)
(* slicing and path manipulation are computed the way the code computes    *)
(* them.  Python exceptions are modelled by the variable err.              *)
(***************************************************************************)
EXTENDS Integers, Sequences, FiniteSets, TLC

VARIABLES
    pc,          \* position of the run (the next call to make)
    err,         \* name of the exception that ended the run, or "none"
    file,        \* content of the metadata file (sequence of characters)
    List_in4,    \* value returned by load_in4
    sep,         \* os.sep of the host
    root,        \* the audio root directory: its entries in os.listdir order
    infor_wav,   \* transform_data: the flat record list
    data_dict,   \* transform_data: the returned mapping (insertion ordered)
    rng,         \* state of the process-wide pseudo-random generator
    seed,        \* prepare_data argument
    split_ratio, \* prepare_data / split_sets argument
    shuffled,    \* whether random.shuffle has been executed by split_sets
    data_split,  \* value returned by split_sets
    clip_lens,   \* the numbers of samples read_audio may return
    outputs,     \* what is at the three output paths
    prev         \* seed and data_split of the previous run of this process, if any

vars == <<pc, err, file, List_in4, sep, root, infor_wav, data_dict, rng, seed,
          split_ratio, shuffled, data_split, clip_lens, outputs, prev>>

(***************************************************************************)
(* Bounds                                                                  *)
(***************************************************************************)
MaxFileLen == 11
MaxRows == 2
MaxFiles == 2
MaxRecs == 4
MaxRatio == 2
MaxRatioLen == 4
MaxSeed == 1
RngMod == 16
MaxStem == 2
MaxWavs == 3

(***************************************************************************)
(* Characters and strings                                                  *)
(***************************************************************************)
SP == " "
NL == "\n"
FileChars == {"a", SP, NL}

\* str.isspace() for one character
IsSpace(c) == c \in {SP, NL, "\t", "\r"}

SeqsUpTo(S, n) == UNION {[1..k -> S] : k \in 0..n}

\* for i in f: the lines of a text file, each with its terminating newline
\* (the last line may lack one)
RECURSIVE FileLines(_, _, _)
FileLines(s, cur, acc) ==
    IF s = <<>> THEN (IF cur = <<>> THEN acc ELSE Append(acc, cur))
    ELSE IF Head(s) = NL THEN FileLines(Tail(s), <<>>, Append(acc, Append(cur, NL)))
    ELSE FileLines(Tail(s), Append(cur, Head(s)), acc)

\* str.strip(): drop leading and trailing whitespace
RECURSIVE LStrip(_)
LStrip(s) == IF s # <<>> /\ IsSpace(Head(s)) THEN LStrip(Tail(s)) ELSE s

RECURSIVE RStrip(_)
RStrip(s) ==
    IF s # <<>> /\ IsSpace(s[Len(s)]) THEN RStrip(SubSeq(s, 1, Len(s) - 1)) ELSE s

strip(s) == RStrip(LStrip(s))

\* str.split() without argument: runs of whitespace separate the tokens,
\* leading and trailing whitespace yields no empty token
RECURSIVE SplitScan(_, _, _)
SplitScan(s, cur, acc) ==
    IF s = <<>> THEN (IF cur = <<>> THEN acc ELSE Append(acc, cur))
    ELSE IF IsSpace(Head(s))
         THEN SplitScan(Tail(s), <<>>, IF cur = <<>> THEN acc ELSE Append(acc, cur))
         ELSE SplitScan(Tail(s), Append(cur, Head(s)), acc)

split(s) == SplitScan(s, <<>>, <<>>)

(***************************************************************************)
(* load_in4                                                                *)
(***************************************************************************)
\* variant of RowOfLine that takes the last three tokens of the line
RowOfLineLastThree(line) ==
    LET text_in4 == split(strip(line))
        n == Len(text_in4)
    IN  IF n < 3
        THEN [err |-> "IndexError", row |-> <<>>]
        ELSE [err |-> "none", row |-> <<text_in4[n - 2], text_in4[n - 1], text_in4[n]>>]

\* the body of the loop for one line: the row appended, or the exception
\* raised by text_in4[k] when the line has fewer than three tokens
RowOfLine(line) ==
    LET text_in4 == split(strip(line))
    IN  IF Len(text_in4) < 3
        THEN [err |-> "IndexError", row |-> <<>>]
        ELSE [err |-> "none", row |-> <<text_in4[1], text_in4[2], text_in4[3]>>]

RECURSIVE LoadLines(_, _)
LoadLines(lines, acc) ==
    IF lines = <<>> THEN [err |-> "none", val |-> acc]
    ELSE LET r == RowOfLine(Head(lines))
         IN  IF r.err # "none" THEN [err |-> r.err, val |-> <<>>]
             ELSE LoadLines(Tail(lines), Append(acc, r.row))

load_in4(content) == LoadLines(FileLines(content, <<>>, <<>>), <<>>)

(***************************************************************************)
(* transform_data                                                          *)
(***************************************************************************)
DataRoot == <<"d">>

\* os.path.join(a, b) for the host separator s
join(a, b, s) ==
    IF b # <<>> /\ Head(b) = s THEN b
    ELSE IF a = <<>> \/ a[Len(a)] = s THEN a \o b
    ELSE a \o <<s>> \o b

\* str.replace("\\", "/")
RECURSIVE ReplaceBackslash(_)
ReplaceBackslash(p) ==
    IF p = <<>> THEN <<>>
    ELSE <<IF Head(p) = "\\" THEN "/" ELSE Head(p)>> \o ReplaceBackslash(Tail(p))

\* for wav_name in os.listdir(join(root, id_speaker)): infor_wav.append(...)
RECURSIVE RecordsOfDir(_, _, _, _, _)
RecordsOfDir(names, id_speaker, regions, Sex, s) ==
    IF names = <<>> THEN <<>>
    ELSE LET path_wav == join(join(DataRoot, id_speaker, s), Head(names), s)
         IN  <<<<ReplaceBackslash(path_wav), regions, Sex>>>>
             \o RecordsOfDir(Tail(names), id_speaker, regions, Sex, s)

\* for i in os.listdir(path_to_dataWav): if str(i) == str(id_speaker): ...
\* os.listdir of an entry that is not a directory raises NotADirectoryError
RECURSIVE MatchRow(_, _, _, _)
MatchRow(entries, row, s, acc) ==
    IF entries = <<>> THEN [err |-> "none", val |-> acc]
    ELSE LET e == Head(entries)
         IN  IF e.name = row[1]
             THEN IF ~e.isdir THEN [err |-> "NotADirectoryError", val |-> <<>>]
                  ELSE MatchRow(Tail(entries), row, s,
                                acc \o RecordsOfDir(e.list, row[1], row[2], row[3], s))
             ELSE MatchRow(Tail(entries), row, s, acc)

\* for id_speaker, regions, Sex in load_in4(path_txt_info): ...
RECURSIVE MatchRows(_, _, _, _)
MatchRows(rows, entries, s, acc) ==
    IF rows = <<>> THEN [err |-> "none", val |-> acc]
    ELSE LET r == MatchRow(entries, Head(rows), s, <<>>)
         IN  IF r.err # "none" THEN r
             ELSE MatchRows(Tail(rows), entries, s, acc \o r.val)

\* an insertion-ordered dict is a sequence of <<key, value>> pairs
DictHas(d, k) == \E i \in 1..Len(d) : d[i][1] = k
DictPos(d, k) == CHOOSE i \in 1..Len(d) : d[i][1] = k
DictGet(d, k) == d[DictPos(d, k)][2]
\* variant of DictSet in which an existing key keeps its first value
DictSetFirstWins(d, k, v) == IF DictHas(d, k) THEN d ELSE Append(d, <<k, v>>)

\* d[k] = v : a new key goes last, an existing key keeps its place
DictSet(d, k, v) ==
    IF DictHas(d, k) THEN [d EXCEPT ![DictPos(d, k)] = <<k, v>>]
    ELSE Append(d, <<k, v>>)

\* variant of IndexRecords that appends every record to the list of key 0
IndexRecordsOneKey(infor, idx, d) == IF infor = <<>> THEN <<>> ELSE <<<<0, infor>>>>

\* for idx in range(len(infor_wav)): ... data_dict[idx].append(infor_wav[idx])
RECURSIVE IndexRecords(_, _, _)
IndexRecords(infor, idx, d) ==
    IF idx >= Len(infor) THEN d
    ELSE LET d1 == IF ~DictHas(d, idx) THEN DictSet(d, idx, <<>>) ELSE d
             d2 == DictSet(d1, idx, Append(DictGet(d1, idx), infor[idx + 1]))
         IN  IndexRecords(infor, idx + 1, d2)

transform_data(entries, content, s) ==
    LET l == load_in4(content)
    IN  IF l.err # "none" THEN [err |-> l.err, infor |-> <<>>, dict |-> <<>>]
        ELSE LET m == MatchRows(l.val, entries, s, <<>>)
             IN  IF m.err # "none" THEN [err |-> m.err, infor |-> <<>>, dict |-> <<>>]
                 ELSE [err |-> "none", infor |-> m.val,
                       dict |-> IndexRecords(m.val, 0, <<>>)]

(***************************************************************************)
(* The pseudo-random generator (module random)                             *)
(*                                                                         *)
(* The generator is a process-wide state.  It is modelled as a linear      *)
(* congruential generator over 0..RngMod-1: what the code relies on is     *)
(* that random.seed overwrites the whole state and that random.shuffle is  *)
(* a function of the state and of the list, advancing the state by one     *)
(* draw per position.                                                      *)
(***************************************************************************)
RngStates == 0..(RngMod - 1)

Abs(n) == IF n < 0 THEN 0 - n ELSE n

\* variant of SeedRng that leaves the generator as it was
SeedRngSkipped(old, sd) == old

\* random.seed(seed): the state after seeding depends on the seed only
SeedRng(old, sd) == Abs(sd) % RngMod

NextRng(s) == (5 * s + 3) % RngMod

Swap(x, i, j) == [x EXCEPT ![i] = x[j], ![j] = x[i]]

\* random.shuffle(x): for i in reversed(range(1, len(x))):
\*                        j = randbelow(i + 1); x[i], x[j] = x[j], x[i]
\* (positions are 1-based here: i runs from Len(x) down to 2)
RECURSIVE ShuffleFrom(_, _, _)
ShuffleFrom(x, i, s) ==
    IF i < 2 THEN [list |-> x, rng |-> s]
    ELSE LET s1 == NextRng(s)
             j == (s1 % i) + 1
         IN  ShuffleFrom(Swap(x, i, j), i - 1, s1)

shuffle(x, s) == ShuffleFrom(x, Len(x), s)

(***************************************************************************)
(* split_sets                                                              *)
(***************************************************************************)
\* for key in data_dict.keys(): wav_list.append(data_dict[key][0])
RECURSIVE ExtractRecords(_)
ExtractRecords(d) ==
    IF d = <<>> THEN <<>> ELSE <<Head(d)[2][1]>> \o ExtractRecords(Tail(d))

RECURSIVE SumSeq(_)
SumSeq(q) == IF q = <<>> THEN 0 ELSE Head(q) + SumSeq(Tail(q))

\* int(a / b) for integers a and b # 0: true division, truncated toward zero
\* (the float quotient of two integers below 2^53 truncates to the exact value)
TruncDiv(a, b) ==
    IF (a >= 0) = (b > 0) THEN Abs(a) \div Abs(b) ELSE 0 - (Abs(a) \div Abs(b))

\* the stop index of the slice x[0:n]
SliceStop(len, n) ==
    IF n < 0 THEN (IF len + n < 0 THEN 0 ELSE len + n)
    ELSE IF n > len THEN len ELSE n

\* variant of Drop that deletes nothing
DropNothing(x, n) == x

\* x[0:n]
Take(x, n) == SubSeq(x, 1, SliceStop(Len(x), n))
\* del x[0:n]
Drop(x, n) == SubSeq(x, SliceStop(Len(x), n) + 1, Len(x))

\* variant of n_snts that rounds to the nearest integer
n_sntsRounded(tot_snts, ratio, i, tot_split) ==
    TruncDiv(2 * tot_snts * ratio[i] + tot_split, 2 * tot_split)

\* n_snts = int(tot_snts * split_ratio[i] / tot_split)
n_snts(tot_snts, ratio, i, tot_split) == TruncDiv(tot_snts * ratio[i], tot_split)

NoSplit == [train |-> <<>>, valid |-> <<>>, test |-> <<>>]

\* the two passes of the loop over ["train", "valid"], then the test split.
\* split_ratio[i] is evaluated before the division.
SliceSplits(x, ratio) ==
    LET tot_split == SumSeq(ratio)
        tot_snts == Len(x)
    IN  IF Len(ratio) < 1 THEN [err |-> "IndexError", split |-> NoSplit]
        ELSE IF tot_split = 0 THEN [err |-> "ZeroDivisionError", split |-> NoSplit]
        ELSE IF Len(ratio) < 2 THEN [err |-> "IndexError", split |-> NoSplit]
        ELSE LET n1 == n_snts(tot_snts, ratio, 1, tot_split)
                 x1 == Drop(x, n1)
                 n2 == n_snts(tot_snts, ratio, 2, tot_split)
             IN  [err |-> "none",
                  split |-> [train |-> Take(x, n1), valid |-> Take(x1, n2),
                             test |-> Drop(x1, n2)]]

\* split_sets(data_dict, split_ratio) run with the generator in state s:
\* the list is shuffled before the ratio vector is looked at
split_sets(d, ratio, s) ==
    LET sh == shuffle(ExtractRecords(d), s)
        r == SliceSplits(sh.list, ratio)
    IN  [err |-> r.err, split |-> r.split, rng |-> sh.rng, shuffled |-> TRUE]

(***************************************************************************)
(* create_json                                                             *)
(***************************************************************************)
SAMPLERATE == 16000

\* the position of the last "/" of p, 0 if there is none
LastSlash(p) ==
    LET S == {i \in 1..Len(p) : p[i] = "/"}
    IN  IF S = {} THEN 0 ELSE CHOOSE i \in S : \A j \in S : j <= i

\* uttid = wav_file.split("/")[-1][:-4]
uttid(wav_file) ==
    LET name == SubSeq(wav_file, LastSlash(wav_file) + 1, Len(wav_file))
    IN  SubSeq(name, 1, Len(name) - 4)

\* signal.shape[0] / SAMPLERATE, kept as the exact quotient
Duration(samples) == [num |-> samples, den |-> SAMPLERATE]

\* the loop of create_json over wav_list; reads[k] is what read_audio does
\* for the k-th record: it raises (ok is FALSE) or returns that many samples
RECURSIVE BuildJson(_, _, _, _)
BuildJson(list, reads, k, json_dict) ==
    IF k > Len(list) THEN [err |-> "none", json |-> json_dict]
    ELSE IF ~reads[k].ok THEN [err |-> "AudioReadError", json |-> json_dict]
    ELSE LET obj == list[k]
             entry == [wav |-> obj[1], length |-> Duration(reads[k].samples),
                       regions |-> obj[2]]
         IN  BuildJson(list, reads, k + 1, DictSet(json_dict, uttid(obj[1]), entry))

\* variant of create_json that writes the entries built so far when a read fails
create_jsonPartial(list, reads, old) ==
    LET r == BuildJson(list, reads, 1, <<>>)
    IN  [err |-> r.err, content |-> [exists |-> TRUE, json |-> r.json]]

\* what create_json leaves at json_file_save: the file is opened and written
\* after the loop, so an exception in the loop leaves the path untouched
create_json(list, reads, old) ==
    LET r == BuildJson(list, reads, 1, <<>>)
    IN  IF r.err # "none" THEN [err |-> r.err, content |-> old]
        ELSE [err |-> "none", content |-> [exists |-> TRUE, json |-> r.json]]

(***************************************************************************)
(* Inputs: metadata tables and audio trees                                 *)
(***************************************************************************)
SpeakerIds == {<<"a">>, <<"b">>}
Regions == {<<"n">>, <<"s">>}
Sexes == {<<"m">>}
MetaRows == SpeakerIds \X Regions \X Sexes

\* the text of a metadata table holding the given rows, one per line
RECURSIVE FormatRows(_)
FormatRows(rows) ==
    IF rows = <<>> THEN <<>>
    ELSE Head(rows)[1] \o <<SP>> \o Head(rows)[2] \o <<SP>> \o Head(rows)[3]
         \o <<NL>> \o FormatRows(Tail(rows))

MetaFiles == {FormatRows(rows) : rows \in SeqsUpTo(MetaRows, MaxRows)}

WavNames == {<<"a", ".", "w", "a", "v">>, <<"b", ".", "w", "a", "v">>,
             <<"c", ".", "o", "g", "g">>}

NoDup(q) == \A i, j \in 1..Len(q) : i # j => q[i] # q[j]

Listings == {q \in SeqsUpTo(WavNames, MaxFiles) : NoDup(q)}

\* an entry of the audio root: a speaker directory or a plain file
EntriesNamed(n) ==
    {[name |-> n, isdir |-> TRUE, list |-> q] : q \in Listings}
    \cup {[name |-> n, isdir |-> FALSE, list |-> <<>>]}

RootEntries == UNION {EntriesNamed(n) : n \in SpeakerIds}

Roots ==
    {q \in SeqsUpTo(RootEntries, Cardinality(SpeakerIds)) :
        \A i, j \in 1..Len(q) : i # j => q[i].name # q[j].name}

Seps == {"/", "\\"}

\* ratio vectors: the default of prepare_data and an even split
DefaultRatio == <<80, 10, 10>>
DefaultSeed == 12
PipelineRatios == {DefaultRatio, <<1, 1, 1>>}
Seeds == {DefaultSeed} \cup 0..MaxSeed

\* every vector of up to MaxRatioLen integers of -1..MaxRatio
RatioVecs == SeqsUpTo((0 - 1)..MaxRatio, MaxRatioLen)

Digits == <<"1", "2", "3", "4", "5", "6", "7", "8", "9">>

\* n records of n different audio files of speaker a
Recs(n) ==
    [i \in 1..n |-> <<<<"d", "/", "a", "/", Digits[i], ".", "w", "a", "v">>,
                       <<"n">>, <<"m">>>>]

\* audio paths for the manifest writer: [dir/]stem.ext
Stems == SeqsUpTo({"a"}, MaxStem)
Exts == {<<".", "w", "a", "v">>, <<".", "a", "u">>}
Dirs == {<<>>, <<"d", "/">>}
WavPaths == {d \o st \o e : d \in Dirs, st \in Stems, e \in Exts}
WavRecords == {<<p, <<"n">>, <<"m">>>> : p \in WavPaths}

(***************************************************************************)
(* State before anything has run                                           *)
(***************************************************************************)
\* an output path that no run has written
NoFile == [exists |-> FALSE, json |-> <<>>]
NoOutputs == [train |-> NoFile, valid |-> NoFile, test |-> NoFile]

Fresh ==
    /\ err = "none"
    /\ List_in4 = <<>>
    /\ infor_wav = <<>>
    /\ data_dict = <<>>
    /\ shuffled = FALSE
    /\ data_split = NoSplit
    /\ outputs = NoOutputs
    /\ prev = <<>>

(***************************************************************************)
(* Operations                                                              *)
(***************************************************************************)
\* load_in4(path_txt_info) called on its own
LoadIn4 ==
    /\ pc = "load"
    /\ err = "none"
    /\ LET r == load_in4(file)
       IN  /\ err' = r.err
           /\ List_in4' = r.val
           /\ pc' = IF r.err = "none" THEN "loaded" ELSE pc
    /\ UNCHANGED <<file, sep, root, infor_wav, data_dict, rng, seed, split_ratio,
                   shuffled, data_split, clip_lens, outputs, prev>>

\* prepare_data, line 58: random.seed(seed)
SeedRandom ==
    /\ pc = "seed"
    /\ err = "none"
    /\ rng' = SeedRng(rng, seed)
    /\ pc' = "transform"
    /\ UNCHANGED <<err, file, List_in4, sep, root, infor_wav, data_dict, seed,
                   split_ratio, shuffled, data_split, clip_lens, outputs, prev>>

\* transform_data(path_to_dataWav, path_txt_info)
TransformData ==
    /\ pc = "transform"
    /\ err = "none"
    /\ LET r == transform_data(root, file, sep)
       IN  /\ err' = r.err
           /\ infor_wav' = r.infor
           /\ data_dict' = r.dict
           /\ pc' = IF r.err = "none" THEN "split" ELSE pc
    /\ UNCHANGED <<file, List_in4, sep, root, rng, seed, split_ratio, shuffled,
                   data_split, clip_lens, outputs, prev>>

\* split_sets(info_dict, split_ratio)
SplitSets ==
    /\ pc = "split"
    /\ err = "none"
    /\ LET r == split_sets(data_dict, split_ratio, rng)
       IN  /\ err' = r.err
           /\ data_split' = r.split
           /\ rng' = r.rng
           /\ shuffled' = r.shuffled
           /\ pc' = IF r.err = "none" THEN "write_train" ELSE pc
    /\ UNCHANGED <<file, List_in4, sep, root, infor_wav, data_dict, seed,
                   split_ratio, clip_lens, outputs, prev>>

ReadOutcomes ==
    {[ok |-> FALSE, samples |-> 0]} \cup {[ok |-> TRUE, samples |-> n] : n \in clip_lens}

\* create_json(data_split[name], save_json_<name>); read_audio either raises
\* or returns a signal of one of the clip lengths of the corpus
CreateJson(at, name, next) ==
    /\ pc = at
    /\ err = "none"
    /\ \E reads \in [1..Len(data_split[name]) -> ReadOutcomes] :
          LET r == create_json(data_split[name], reads, outputs[name])
          IN  /\ err' = r.err
              /\ outputs' = [outputs EXCEPT ![name] = r.content]
              /\ pc' = IF r.err = "none" THEN next ELSE pc
    /\ UNCHANGED <<file, List_in4, sep, root, infor_wav, data_dict, rng, seed,
                   split_ratio, shuffled, data_split, clip_lens, prev>>

CreateJsonTrain == CreateJson("write_train", "train", "write_valid")
CreateJsonValid == CreateJson("write_valid", "valid", "write_test")
CreateJsonTest == CreateJson("write_test", "test", "done")

\* prepare_data is called once more in the same process, with the same
\* corpus and ratio vector and any seed; the generator is as the previous
\* run left it
Again ==
    /\ pc = "write_train"
    /\ err = "none"
    /\ prev' = <<[seed |-> seed, split |-> data_split]>>
    /\ seed' \in Seeds
    /\ pc' = "seed"
    /\ infor_wav' = <<>>
    /\ data_dict' = <<>>
    /\ data_split' = NoSplit
    /\ shuffled' = FALSE
    /\ UNCHANGED <<err, file, List_in4, sep, root, rng, split_ratio, clip_lens,
                   outputs>>

(***************************************************************************)
(* Specifications                                                          *)
(***************************************************************************)
\* the metadata loader on every text of up to MaxFileLen characters
InitLoad ==
    /\ Fresh
    /\ pc = "load"
    /\ file \in SeqsUpTo(FileChars, MaxFileLen)
    /\ sep = "/"
    /\ root = <<>>
    /\ rng = 0
    /\ seed = DefaultSeed
    /\ split_ratio = DefaultRatio
    /\ clip_lens = {SAMPLERATE}

NextLoad == LoadIn4

SpecLoad == InitLoad /\ [][NextLoad]_vars

\* the matcher on every metadata table and audio tree of the input sets
InitTransform ==
    /\ Fresh
    /\ pc = "transform"
    /\ file \in MetaFiles
    /\ sep \in Seps
    /\ root \in Roots
    /\ rng = 0
    /\ seed = DefaultSeed
    /\ split_ratio = DefaultRatio
    /\ clip_lens = {SAMPLERATE}

NextTransform == TransformData

SpecTransform == InitTransform /\ [][NextTransform]_vars

\* the splitter on 0..MaxRecs records, every ratio vector and generator state
InitSplit ==
    /\ err = "none"
    /\ List_in4 = <<>>
    /\ shuffled = FALSE
    /\ data_split = NoSplit
    /\ outputs = NoOutputs
    /\ prev = <<>>
    /\ pc = "split"
    /\ file = <<>>
    /\ sep = "/"
    /\ root = <<>>
    /\ \E n \in 0..MaxRecs :
          /\ infor_wav = Recs(n)
          /\ data_dict = IndexRecords(Recs(n), 0, <<>>)
    /\ rng \in RngStates
    /\ seed = DefaultSeed
    /\ split_ratio \in RatioVecs
    /\ clip_lens = {SAMPLERATE}

NextSplit == SplitSets

SpecSplit == InitSplit /\ [][NextSplit]_vars

\* the manifest writer on every list of up to MaxWavs records
InitWrite ==
    /\ err = "none"
    /\ List_in4 = <<>>
    /\ infor_wav = <<>>
    /\ data_dict = <<>>
    /\ shuffled = FALSE
    /\ outputs = NoOutputs
    /\ prev = <<>>
    /\ pc = "write_test"
    /\ file = <<>>
    /\ sep = "/"
    /\ root = <<>>
    /\ rng = 0
    /\ seed = DefaultSeed
    /\ split_ratio = DefaultRatio
    /\ \E l \in SeqsUpTo(WavRecords, MaxWavs) :
          data_split = [train |-> <<>>, valid |-> <<>>, test |-> l]
    /\ clip_lens = {SAMPLERATE}

NextWrite == CreateJsonTest

SpecWrite == InitWrite /\ [][NextWrite]_vars

\* the audio trees of the whole-run specifications: at most one entry
PipeRoots == {q \in Roots : Len(q) <= 1}

\* prepare_data from start to end
InitPipeline ==
    /\ Fresh
    /\ pc = "seed"
    /\ file \in MetaFiles
    /\ sep \in Seps
    /\ root \in PipeRoots
    /\ rng \in RngStates
    /\ seed \in Seeds
    /\ split_ratio \in PipelineRatios
    /\ clip_lens = {SAMPLERATE}

NextPipeline ==
    \/ SeedRandom
    \/ TransformData
    \/ SplitSets
    \/ CreateJsonTrain
    \/ CreateJsonValid
    \/ CreateJsonTest

Spec == InitPipeline /\ [][NextPipeline]_vars

\* repeated runs of the seeding, matching and splitting stages
InitRuns ==
    /\ Fresh
    /\ pc = "seed"
    /\ file \in MetaFiles
    /\ sep = "/"
    /\ root \in {q \in PipeRoots : \A i \in 1..Len(q) : q[i].isdir}
    /\ rng \in RngStates
    /\ seed \in Seeds
    /\ split_ratio = DefaultRatio
    /\ clip_lens = {SAMPLERATE}

NextRuns ==
    \/ SeedRandom
    \/ TransformData
    \/ SplitSets
    \/ Again

SpecRuns == InitRuns /\ [][NextRuns]_vars

(***************************************************************************)
(* Properties                                                              *)
(***************************************************************************)
RangeOf(q) == {q[i] : i \in 1..Len(q)}

Occurrences(q, v) == Cardinality({k \in 1..Len(q) : q[k] = v})

SplitReturned == pc \in {"write_train", "write_valid", "write_test", "done"}

AllSplits == data_split.train \o data_split.valid \o data_split.test

\* C1: whenever split_sets returns, train, valid and test together hold
\* every record of the flat list exactly once, and nothing else (the
\* records of the splitter specification are pairwise different, so a
\* record stands for its position in the flat list).
C1_SplitsPartitionRecords ==
    (pc = "write_train" /\ err = "none") =>
        /\ Len(AllSplits) = Len(infor_wav)
        /\ \A i \in 1..Len(infor_wav) : Occurrences(AllSplits, infor_wav[i]) = 1

C1_Witness ==
    /\ pc = "write_train"
    /\ err = "none"
    /\ Len(infor_wav) = MaxRecs
    /\ data_split.train # <<>>
    /\ data_split.valid # <<>>
    /\ data_split.test # <<>>
    /\ AllSplits # infor_wav

\* floor(a / b) for b > 0
Floor(a, b) == IF a >= 0 THEN a \div b ELSE 0 - ((b - 1 - a) \div b)

SizesFollowRatio ==
    LET N == Len(infor_wav)
        tot == SumSeq(split_ratio)
    IN  /\ Len(data_split.train) = Floor(N * split_ratio[1], tot)
        /\ Len(data_split.valid) = Floor(N * split_ratio[2], tot)
        /\ Len(data_split.test) = N - Len(data_split.train) - Len(data_split.valid)
        /\ (split_ratio[1] = 0 /\ split_ratio[2] = 0) =>
               /\ data_split.train = <<>>
               /\ data_split.valid = <<>>
               /\ Len(data_split.test) = N
               /\ RangeOf(data_split.test) = RangeOf(infor_wav)

ThreeEntriesPositiveSum == Len(split_ratio) = 3 /\ SumSeq(split_ratio) > 0

NoNegativeEntry == \A i \in 1..Len(split_ratio) : split_ratio[i] >= 0

\* C2 as stated: for every 3-entry ratio vector with a positive sum the
\* split sizes are floor(N * r_train / sum), floor(N * r_valid / sum) and
\* the remainder, and a vector (0, 0, r) puts the whole input in test.
C2_SizesForPositiveSum ==
    (pc = "write_train" /\ err = "none" /\ ThreeEntriesPositiveSum) => SizesFollowRatio

\* C2 amended: the same, for 3-entry ratio vectors with a positive sum and
\* no negative entry.
C2_SizesForNonNegativeRatios ==
    (pc = "write_train" /\ err = "none" /\ ThreeEntriesPositiveSum /\ NoNegativeEntry)
        => SizesFollowRatio

C2_Witness ==
    /\ pc = "write_train"
    /\ err = "none"
    /\ ThreeEntriesPositiveSum
    /\ NoNegativeEntry
    /\ Len(infor_wav) = MaxRecs
    /\ (Len(infor_wav) * split_ratio[1]) % SumSeq(split_ratio) # 0
    /\ (Len(infor_wav) * split_ratio[2]) % SumSeq(split_ratio) # 0
    /\ Len(data_split.test) > Floor(Len(infor_wav) * split_ratio[3], SumSeq(split_ratio))

\* C3: a run of prepare_data that uses the same seed as the previous run of
\* the process (same corpus, same ratio vector) returns the same three
\* sequences, in the same order, whatever state the generator was in.
C3_SameSeedSameSplits ==
    (pc = "write_train" /\ err = "none" /\ prev # <<>>) =>
        (prev[1].seed = seed => data_split = prev[1].split)

C3_Witness ==
    /\ pc = "write_train"
    /\ err = "none"
    /\ prev # <<>>
    /\ prev[1].seed = seed
    /\ Len(infor_wav) >= 3
    /\ AllSplits # infor_wav

SplitEnded == pc = "write_train" \/ err # "none"

\* C4: a ratio vector that has not exactly three entries, or whose sum is
\* not positive, makes split_sets fail with InvalidRatio, and the list has
\* not been shuffled when it fails.
C4_InvalidRatioRejectedBeforeShuffle ==
    (SplitEnded /\ ~ThreeEntriesPositiveSum) => (err = "InvalidRatio" /\ ~shuffled)

Min(S) == CHOOSE x \in S : \A y \in S : x <= y
Max(S) == CHOOSE x \in S : \A y \in S : y <= x
Kth(S, k) == CHOOSE x \in S : Cardinality({y \in S : y < x}) = k - 1

\* where the lines of a text start, and where the line starting at i ends
LineStarts(f) == {i \in 1..Len(f) : i = 1 \/ f[i - 1] = NL}
LineEnd(f, i) ==
    LET S == {j \in i..Len(f) : f[j] = NL} IN IF S = {} THEN Len(f) ELSE Min(S)

\* a token is a maximal run of characters that are not whitespace
TokenStarts(f, lo, hi) ==
    {i \in lo..hi : ~IsSpace(f[i]) /\ (i = lo \/ IsSpace(f[i - 1]))}
TokenAt(f, i, hi) ==
    SubSeq(f, i, Max({j \in i..hi : \A m \in i..j : ~IsSpace(f[m])}))
TokensOfLine(f, lo) == TokenStarts(f, lo, LineEnd(f, lo))
FirstThree(f, lo) ==
    LET hi == LineEnd(f, lo)
        T == TokenStarts(f, lo, hi)
    IN  <<TokenAt(f, Kth(T, 1), hi), TokenAt(f, Kth(T, 2), hi), TokenAt(f, Kth(T, 3), hi)>>

LoadEnded == pc = "loaded" \/ err # "none"

\* C5: load_in4 returns one row per line, in file order, made of the first
\* three whitespace-separated tokens of the line; if some line (an empty
\* one included) has fewer than three tokens it fails and returns nothing.
C5_RowsAreFirstThreeTokens ==
    LoadEnded =>
        IF \A lo \in LineStarts(file) : Cardinality(TokensOfLine(file, lo)) >= 3
        THEN /\ pc = "loaded"
             /\ err = "none"
             /\ Len(List_in4) = Cardinality(LineStarts(file))
             /\ \A k \in 1..Len(List_in4) :
                    List_in4[k] = FirstThree(file, Kth(LineStarts(file), k))
        ELSE /\ pc = "load"
             /\ err # "none"
             /\ List_in4 = <<>>

C5_Witness ==
    /\ pc = "loaded"
    /\ Len(List_in4) = 2
    /\ \E lo \in LineStarts(file) : Cardinality(TokensOfLine(file, lo)) = 3

\* the rows of the metadata table of the run
RowsOfFile == load_in4(file).val

SpeakerDirs(id) == {i \in 1..Len(root) : root[i].name = id /\ root[i].isdir}

\* the records the join gives for one row
JoinOfRow(row) ==
    IF SpeakerDirs(row[1]) = {} THEN <<>>
    ELSE LET names == root[Min(SpeakerDirs(row[1]))].list
         IN  [k \in 1..Len(names) |->
                 <<DataRoot \o <<"/">> \o row[1] \o <<"/">> \o names[k], row[2], row[3]>>]

RECURSIVE JoinOfRows(_)
JoinOfRows(rows) ==
    IF rows = <<>> THEN <<>> ELSE JoinOfRow(Head(rows)) \o JoinOfRows(Tail(rows))

TransformEnded == pc = "split" \/ err # "none"

\* C6: the flat record list is the join of the metadata rows, in order,
\* with the speaker subdirectories of the audio root: one record per entry
\* of the subdirectory named like the row's speaker, and no record and no
\* error for a row without such a subdirectory.
C6_RecordsAreTheJoin ==
    TransformEnded => (err = "none" /\ infor_wav = JoinOfRows(RowsOfFile))

PathsOf(q) == {q[i][1] : i \in 1..Len(q)}

\* C7: after the split no record, and no audio path, is in two splits.
C7_SplitsDisjoint ==
    SplitReturned =>
        /\ PathsOf(data_split.train) \cap PathsOf(data_split.valid) = {}
        /\ PathsOf(data_split.train) \cap PathsOf(data_split.test) = {}
        /\ PathsOf(data_split.valid) \cap PathsOf(data_split.test) = {}
        /\ RangeOf(data_split.train) \cap RangeOf(data_split.valid) = {}
        /\ RangeOf(data_split.train) \cap RangeOf(data_split.test) = {}
        /\ RangeOf(data_split.valid) \cap RangeOf(data_split.test) = {}

\* C8: when read_audio fails in create_json, the path of that split is left
\* unwritten, the splits before it (train, valid, test in this order) have
\* been written, the ones after it are not, and the run takes no further
\* step.
C8_ReadFailureAbortsRun ==
    err = "AudioReadError" =>
        /\ pc \in {"write_train", "write_valid", "write_test"}
        /\ outputs.train.exists = (pc # "write_train")
        /\ outputs.valid.exists = (pc = "write_test")
        /\ outputs.test = NoFile
        /\ outputs[IF pc = "write_train" THEN "train"
                   ELSE IF pc = "write_valid" THEN "valid" ELSE "test"] = NoFile
        /\ ~ENABLED NextPipeline

C8_Witness ==
    /\ err = "AudioReadError"
    /\ pc = "write_valid"
    /\ Len(data_split.valid) >= 1
    /\ outputs.train.exists
    /\ outputs.train.json # <<>>

\* the utterance id of a path: what follows the last "/", less its final
\* four characters
IsIdOf(u, p) ==
    \E i \in 0..Len(p) :
        /\ i = 0 \/ p[i] = "/"
        /\ \A j \in (i + 1)..Len(p) : p[j] # "/"
        /\ Len(u) = (IF Len(p) - i > 4 THEN Len(p) - i - 4 ELSE 0)
        /\ \A j \in 1..Len(u) : u[j] = p[i + j]

IndicesWithId(list, u) == {k \in 1..Len(list) : IsIdOf(u, list[k][1])}

\* C9: the manifest written for a record sequence has one key per utterance
\* id of the sequence, the entry of a key is that of the last record with
\* this id, and the keys are in the order in which the ids first occur.
C9_ManifestKeysAndValues ==
    (pc = "done" /\ err = "none") =>
        LET list == data_split.test
            json == outputs.test.json
        IN  /\ outputs.test.exists
            /\ Len(json) <= Len(list)
            /\ \A k \in 1..Len(list) : \E a \in 1..Len(json) : IsIdOf(json[a][1], list[k][1])
            /\ \A a \in 1..Len(json) :
                   LET K == IndicesWithId(list, json[a][1])
                   IN  /\ K # {}
                       /\ json[a][2].wav = list[Max(K)][1]
                       /\ json[a][2].regions = list[Max(K)][2]
                       /\ json[a][2].length.num \in clip_lens
                       /\ json[a][2].length.den = SAMPLERATE
            /\ \A a, b \in 1..Len(json) :
                   a < b => /\ json[a][1] # json[b][1]
                            /\ Min(IndicesWithId(list, json[a][1]))
                                 < Min(IndicesWithId(list, json[b][1]))

C9_Witness ==
    /\ pc = "done"
    /\ err = "none"
    /\ Len(data_split.test) = 3
    /\ Len(outputs.test.json) = 2
    /\ uttid(data_split.test[1][1]) = uttid(data_split.test[3][1])
    /\ data_split.test[1][1] # data_split.test[3][1]
    /\ uttid(data_split.test[1][1]) # <<>>

\* C10: the mapping returned by transform_data has the keys 0..n-1, in this
\* order, key i holds the one-element list of the record at position i of
\* the flat list, and taking element 0 of every list gives back the flat
\* list.
C10_IndexedSingletons ==
    (pc = "split" /\ err = "none") =>
        /\ Len(data_dict) = Len(infor_wav)
        /\ \A i \in 1..Len(data_dict) :
               /\ data_dict[i][1] = i - 1
               /\ data_dict[i][2] = <<infor_wav[i]>>
        /\ ExtractRecords(data_dict) = infor_wav

C10_Witness ==
    /\ pc = "split"
    /\ err = "none"
    /\ Len(infor_wav) >= 3
    /\ Len(data_dict) >= 3

====
